---------------------------- MODULE Spec2Model ----------------------------
(***************************************************************************)
(* Model of Bonferroni.py: a mixed ANOVA per dependent-variable column,    *)
(* followed by Bonferroni post-hoc comparisons when the interaction effect *)
(* is significant, every table being written to one Excel writer.          *)
(*                                                                         *)
(* Conventions of the model                                                *)
(*   - a Python string that is formatted or normalised is a sequence of    *)
(*     one-character strings, so that strip(), lower() and the f-string    *)
(*     '{x} vs {y}' are computed rather than assumed;                      *)
(*   - a DataFrame is a function from its index labels to its rows, so     *)
(*     that dropna() keeps the index of the rows it keeps;                 *)
(*   - None is <<>> and a value x that may be None is <<x>>; a missing     *)
(*     cell (NaN) of a dependent variable is NA = <<>>, a present one <<v>>;*)
(*   - the p-values of the ANOVA table are in units of 10^-4, so that the  *)
(*     literal 0.001 is 10;                                                *)
(*   - pingouin (mixed_anova, sphericity, pairwise_tests) is outside the   *)
(*     repository: each call is a nondeterministic choice among raising    *)
(*     and returning a table.                                              *)
(***************************************************************************)
EXTENDS Integers, Sequences, FiniteSets, TLC

VARIABLES
    file_data,                \* the sheet read by pd.read_excel (line 7)
    df,                       \* the DataFrame every call receives
    i,                        \* position of the main loop in rm_columns
    pc,                       \* the statement the program is at
    aov_data,                 \* run_mixed_anova's local aov_data
    mixed_anova,              \* the ANOVA table of the current column
    interaction_p_value,
    posthoc_data,             \* run_posthoc_tests...'s local posthoc_data
    groups,                   \* posthoc_data[group_col].unique()
    conditions,               \* posthoc_data[condition_col].unique()
    posthoc_results,          \* the five values the post-hoc call returns
    condition_comparisons,
    group_comparisons,
    interaction_comparisons,
    means,
    writer,                   \* sheet names written to the ExcelWriter
    stdout,                   \* the messages printed so far
    error                     \* the exception that ended the program, if any

vars == <<file_data, df, i, pc, aov_data, mixed_anova, interaction_p_value,
          posthoc_data, groups, conditions, posthoc_results,
          condition_comparisons, group_comparisons, interaction_comparisons,
          means, writer, stdout, error>>

-----------------------------------------------------------------------------
(* Bounds of the model *)

NumDV == 2          \* dependent-variable columns of the sheet
NumRows == 3        \* observations of the sheet
MaxMissing == 2     \* cells of the sheet that hold no value
MaxRows == 1        \* rows of a post-hoc table handed to the aggregators

-----------------------------------------------------------------------------
(* Python values *)

None == <<>>
Some(x) == <<x>>
Get(o) == o[1]

NA == <<>>
IsNA(v) == v = NA

Range(s) == {s[k] : k \in DOMAIN s}

RECURSIVE SumOver(_, _)
SumOver(S, f) ==
    IF S = {} THEN 0
    ELSE LET x == CHOOSE y \in S : TRUE IN f[x] + SumOver(S \ {x}, f)

-----------------------------------------------------------------------------
(* str.strip(), str.lower() and the f-string of the comparison keys *)

Whitespace == {" "}

LowerChar(c) ==
    CASE c = "A" -> "a"
      [] c = "B" -> "b"
      [] c = "X" -> "x"
      [] c = "Y" -> "y"
      [] c = "V" -> "v"
      [] c = "S" -> "s"
      [] OTHER -> c

Lower(s) == [k \in DOMAIN s |-> LowerChar(s[k])]

RECURSIVE LStrip(_)
LStrip(s) ==
    IF s # <<>> /\ Head(s) \in Whitespace THEN LStrip(Tail(s)) ELSE s

RECURSIVE RStrip(_)
RStrip(s) ==
    IF s # <<>> /\ s[Len(s)] \in Whitespace
    THEN RStrip(SubSeq(s, 1, Len(s) - 1)) ELSE s

Strip(s) == RStrip(LStrip(s))

\* data[col].str.strip().str.lower()
Normalize(s) == Lower(Strip(s))

\* f'{x} vs {y}'
VsKey(x, y) == x \o <<" ", "v", "s", " ">> \o y

-----------------------------------------------------------------------------
(* ComparisonAggregator: the two matrix builders and the interaction filter *)

\* itertools.product(levels, repeat=2), in its order
Product(levels) ==
    LET n == Len(levels) IN
    [k \in 1..(n * n) |-> <<levels[((k - 1) \div n) + 1], levels[((k - 1) % n) + 1]>>]

\* posthoc_results.loc[(Contrast == contrast) & ((A == x & B == y) | (A == y & B == x)), 'p-unc']
LocPUnc(rows, contrast, x, y) ==
    LET hit(r) == /\ r.Contrast = contrast
                  /\ \/ (r.A = x /\ r.B = y)
                     \/ (r.A = y /\ r.B = x)
        sel == SelectSeq(rows, hit)
    IN  [k \in DOMAIN sel |-> sel[k].p_unc]

\* comparison.values[0] if len(comparison) > 0 else 'ns'
PValue(comparison) == IF Len(comparison) > 0 THEN comparison[1] ELSE "ns"

\* comparisons[key] = value
DictSet(d, key, value) ==
    [k \in (DOMAIN d) \cup {key} |-> IF k = key THEN value ELSE d[k]]

\* the loop over product(levels, repeat=2) shared by the two builders
RECURSIVE Comparisons(_, _, _, _)
Comparisons(rows, contrast, pairs, comparisons) ==
    IF pairs = <<>> THEN comparisons
    ELSE LET x == Head(pairs)[1]
             y == Head(pairs)[2]
             next == IF x # y
                     THEN DictSet(comparisons, VsKey(x, y),
                                  PValue(LocPUnc(rows, contrast, x, y)))
                     ELSE comparisons
         IN  Comparisons(rows, contrast, Tail(pairs), next)

\* a builder that reads only the rows naming its group
compare_conditions_of_group(rows, group, conds) ==
    Comparisons(SelectSeq(rows, LAMBDA r : r.A = group \/ r.B = group),
                "Condition", Product(conds), <<>>)

compare_conditions_within_groups(rows, group, conds) ==
    Comparisons(rows, "Condition", Product(conds), <<>>)

compare_groups_within_conditions(rows, condition, grps) ==
    Comparisons(rows, "Group", Product(grps), <<>>)

\* posthoc_results.loc[Contrast == 'Condition * Group', ['A', 'B', 'p-unc', 'p-corr']]
compare_interaction(rows) ==
    LET sel == SelectSeq(rows, LAMBDA r : r.Contrast = "Condition * Group")
    IN  [k \in DOMAIN sel |->
            [A |-> sel[k].A, B |-> sel[k].B, p_unc |-> sel[k].p_unc, p_corr |-> sel[k].p_corr]]

\* lines 100-106: one matrix per group, one per condition
ConditionComparisons(rows, grps, conds) ==
    [g \in Range(grps) |-> compare_conditions_within_groups(rows, g, conds)]

GroupComparisons(rows, grps, conds) ==
    [c \in Range(conds) |-> compare_groups_within_conditions(rows, c, grps)]

-----------------------------------------------------------------------------
(* DataFrames: the sheet, the column selections and dropna() *)

\* rm_columns = df.columns[3:]; a column is named by its position among them
rm_columns == [k \in 1..NumDV |-> k]

\* data[[id_column, group_col, condition_col, dv_col]]
SelectColumns(data, dv_col) ==
    [k \in DOMAIN data |->
        [ID |-> data[k].ID, Group |-> data[k].Group,
         Condition |-> data[k].Condition, value |-> data[k].vals[dv_col]]]

\* dropna() of a four-column frame. The ID and the two labels of the modelled
\* sheets are always present, so the rows dropped are those missing the value;
\* dropna(subset=[dv_col]) drops the same rows.
dropna(frame) ==
    LET keep == {k \in DOMAIN frame : ~IsNA(frame[k].value)}
    IN  [k \in keep |-> frame[k]]

\* a fit that drops the rows missing any column of the sheet
AovDataAllColumns(data, dv_col) ==
    LET keep == {k \in DOMAIN data : \A c \in DOMAIN data[k].vals : ~IsNA(data[k].vals[c])}
    IN  [k \in keep |-> SelectColumns(data, dv_col)[k]]

\* line 24: the frame run_mixed_anova fits
AovData(data, dv_col) == dropna(SelectColumns(data, dv_col))

\* lines 82-83: data[col] = data[col].str.strip().str.lower(), on the frame passed in
NormalizeLabels(data) ==
    [k \in DOMAIN data |->
        [data[k] EXCEPT !.Group = Normalize(@), !.Condition = Normalize(@)]]

\* line 86: the frame the pairwise tests and the means are computed from
PosthocData(data, dv_col) == dropna(SelectColumns(data, dv_col))

\* Series.unique(): the distinct values in order of first appearance
RECURSIVE UniqueFrom(_, _, _)
UniqueFrom(frame, col, index) ==
    IF index = {} THEN <<>>
    ELSE LET k == CHOOSE m \in index : \A n \in index : m <= n
             rest == UniqueFrom(frame, col, index \ {k})
         IN  <<frame[k][col]>> \o SelectSeq(rest, LAMBDA v : v # frame[k][col])

Unique(frame, col) == UniqueFrom(frame, col, DOMAIN frame)

-----------------------------------------------------------------------------
(* MeansCalculator *)

NaN == <<>>

\* Series.mean() of one (group, condition) cell: NaN values are skipped, and
\* the mean of no value is NaN. A mean is kept as <<sum, count>>.
CellMean(data, g, c) ==
    LET cell == {k \in DOMAIN data :
                    data[k].Group = g /\ data[k].Condition = c /\ ~IsNA(data[k].value)}
    IN  IF cell = {} THEN NaN
        ELSE <<SumOver(cell, [k \in cell |-> data[k].value[1]]), Cardinality(cell)>>

\* data.groupby([group_col, condition_col])[dv_col].mean(): one entry per
\* (group, condition) pair that occurs in a row of data
GroupbyMean(data) ==
    LET keys == {<<data[k].Group, data[k].Condition>> : k \in DOMAIN data}
    IN  [key \in keys |-> CellMean(data, key[1], key[2])]

\* .unstack(): a row per group and a column per condition of the grouped
\* keys; a (group, condition) pair that is no key is filled with NaN
Unstack(series) ==
    LET rows == {key[1] : key \in DOMAIN series}
        cols == {key[2] : key \in DOMAIN series}
    IN  [cell \in rows \X cols |-> IF cell \in DOMAIN series THEN series[cell] ELSE NaN]

calculate_means(data) == Unstack(GroupbyMean(data))

-----------------------------------------------------------------------------
(* pingouin: what a call may return *)

\* 0.001, in units of 10^-4
Alpha == 10

\* interaction_p_value < 0.001; a comparison with NaN is False
LessThan(p, literal) == p # NaN /\ p[1] < literal

PVals == {<<9>>, <<10>>, <<11>>, NaN}

MainEffects ==
    << [Source |-> "Group", p_unc |-> <<5>>], [Source |-> "Condition", p_unc |-> <<200>>] >>

\* pg.mixed_anova: the two main effects, with or without an Interaction row
AnovaTables ==
    {MainEffects} \cup
    {MainEffects \o <<[Source |-> "Interaction", p_unc |-> p]>> : p \in PVals}

PUncs == {"0.02", "0.5"}

\* the Bonferroni-corrected column; the model never reads it as a number
PCorr(p) == IF p = "0.02" THEN "0.06" ELSE "1.0"

PosthocRow(contrast, a, b, p, swap) ==
    [Contrast |-> contrast, A |-> IF swap THEN b ELSE a, B |-> IF swap THEN a ELSE b,
     p_unc |-> p, p_corr |-> PCorr(p)]

\* the pairs levels[a], levels[b] with a < b
LevelPairs(levels) ==
    LET n == Len(levels)
        idx == SelectSeq([k \in 1..(n * n) |-> <<((k - 1) \div n) + 1, ((k - 1) % n) + 1>>],
                         LAMBDA q : q[1] < q[2])
    IN  [k \in DOMAIN idx |-> <<levels[idx[k][1]], levels[idx[k][2]]>>]

\* pg.pairwise_tests on a mixed design: a row per pair of within levels, a row
\* per pair of between levels, and a row per within level and pair of between
\* levels; which level is A and which is B is the library's choice
PairwiseTable(grps, conds, p, swap) ==
    LET cp == LevelPairs(conds)
        gp == LevelPairs(grps)
        ng == Len(gp)
    IN  [k \in DOMAIN cp |-> PosthocRow("Condition", cp[k][1], cp[k][2], p, swap)]
        \o [k \in DOMAIN gp |-> PosthocRow("Group", gp[k][1], gp[k][2], p, swap)]
        \o [k \in 1..(Len(conds) * ng) |->
               PosthocRow("Condition * Group", gp[((k - 1) % ng) + 1][1],
                          gp[((k - 1) % ng) + 1][2], p, swap)]

-----------------------------------------------------------------------------
(* The sheets the program is run on *)

SubjectOf(k) == (k + 1) \div 2

\* the group of a subject and the condition of a row, as typed in the sheet:
\* the labels of the odd rows carry stray case and blanks, those of the even
\* rows are tidy, so that one level is typed in two ways
GroupLabel(k) ==
    IF SubjectOf(k) % 2 = 1
    THEN (IF k % 2 = 1 THEN <<"A", " ">> ELSE <<"a">>)
    ELSE (IF k % 2 = 1 THEN <<" ", "B">> ELSE <<"b">>)

ConditionLabel(k) == IF k % 2 = 1 THEN <<" ", "X">> ELSE <<"y">>

\* one row per subject and condition; `missing` says which cells hold no value
Sheet(missing) ==
    [k \in 1..NumRows |->
        [ID |-> SubjectOf(k), Group |-> GroupLabel(k),
         Condition |-> ConditionLabel(k),
         vals |-> [c \in Range(rm_columns) |->
                      IF <<k, c>> \in missing THEN NA ELSE <<k + c>>]]]

Sheets ==
    {Sheet(missing) :
        missing \in {m \in SUBSET ((1..NumRows) \X Range(rm_columns)) :
                        Cardinality(m) <= MaxMissing}}

-----------------------------------------------------------------------------
(* The program: lines 116-145 and the functions they call *)

dv_col == rm_columns[i]

\* f'{dv_col}_Mixed_ANOVA' and the like
SheetName(dv, suffix) == <<dv, suffix>>

\* a save that leaves the means out
SuffixesWithoutMeans ==
    {"_Posthoc_Comparisons", "_Condition_Comparisons", "_Group_Comparisons",
     "_Interaction_Comparisons"}

\* lines 136-143: the five sheets of a column's post-hoc results
PosthocSuffixes ==
    {"_Posthoc_Comparisons", "_Condition_Comparisons", "_Group_Comparisons",
     "_Interaction_Comparisons", "_Means"}

Prints(message) == stdout' = Append(stdout, message)

\* the for statement takes the next column, or the with block ends
NextColumn ==
    /\ i' = i + 1
    /\ pc' = IF i < Len(rm_columns) THEN "run_mixed_anova" ELSE "complete"

Returned == <<posthoc_results, condition_comparisons, group_comparisons,
              interaction_comparisons, means>>

Locals == <<aov_data, posthoc_data, groups, conditions>>

Init ==
    /\ file_data \in Sheets
    /\ df = file_data
    /\ i = 1
    /\ pc = "run_mixed_anova"
    /\ aov_data = None
    /\ mixed_anova = None
    /\ interaction_p_value = None
    /\ posthoc_data = None
    /\ groups = None
    /\ conditions = None
    /\ posthoc_results = None
    /\ condition_comparisons = None
    /\ group_comparisons = None
    /\ interaction_comparisons = None
    /\ means = None
    /\ writer = {}
    /\ stdout = <<>>
    /\ error = None

\* lines 118-119, 22-27: the fit and the sphericity test return
RunMixedAnova ==
    /\ pc = "run_mixed_anova"
    /\ Prints(<<"Running Mixed ANOVA for", dv_col>>)
    /\ aov_data' = Some(AovData(df, dv_col))
    /\ \E aov \in AnovaTables : mixed_anova' = Some(aov)
    /\ pc' = "write_anova"
    /\ UNCHANGED <<file_data, df, i, interaction_p_value, posthoc_data, groups,
                   conditions, Returned, writer, error>>

\* lines 118-119, 25-26: pg.mixed_anova or pg.sphericity raises; nothing catches it
MixedAnovaRaises ==
    /\ pc = "run_mixed_anova"
    /\ Prints(<<"Running Mixed ANOVA for", dv_col>>)
    /\ aov_data' = Some(AovData(df, dv_col))
    /\ error' = Some(<<"run_mixed_anova", dv_col>>)
    /\ pc' = "aborted"
    /\ UNCHANGED <<file_data, df, i, mixed_anova, interaction_p_value, posthoc_data,
                   groups, conditions, Returned, writer>>

\* line 121
WriteAnova ==
    /\ pc = "write_anova"
    /\ writer' = writer \cup {SheetName(dv_col, "_Mixed_ANOVA")}
    /\ pc' = "check_interaction"
    /\ UNCHANGED <<file_data, df, i, mixed_anova, interaction_p_value, Locals,
                   Returned, stdout, error>>

\* 'Interaction' in mixed_anova['Source'].values
HasInteraction(aov) == \E k \in DOMAIN aov : aov[k].Source = "Interaction"

\* mixed_anova.loc[mixed_anova['Source'] == 'Interaction', 'p-unc'].values[0]
InteractionPUnc(aov) ==
    SelectSeq(aov, LAMBDA r : r.Source = "Interaction")[1].p_unc

\* lines 124-125
InteractionFound ==
    /\ pc = "check_interaction"
    /\ HasInteraction(Get(mixed_anova))
    /\ interaction_p_value' = Some(InteractionPUnc(Get(mixed_anova)))
    /\ pc' = "posthoc"
    /\ UNCHANGED <<file_data, df, i, mixed_anova, Locals, Returned, writer, stdout, error>>

\* a loop that ends at the first column without the row
InteractionNotFoundBreaks ==
    /\ pc = "check_interaction"
    /\ ~HasInteraction(Get(mixed_anova))
    /\ Prints(<<"Interaction effect not found for", dv_col>>)
    /\ pc' = "complete"
    /\ UNCHANGED <<file_data, df, i, mixed_anova, interaction_p_value, Locals, Returned,
                   writer, error>>

\* lines 126-128
InteractionNotFound ==
    /\ pc = "check_interaction"
    /\ ~HasInteraction(Get(mixed_anova))
    /\ Prints(<<"Interaction effect not found for", dv_col>>)
    /\ NextColumn
    /\ UNCHANGED <<file_data, df, mixed_anova, interaction_p_value, Locals, Returned,
                   writer, error>>

\* a gate that lets 0.001 itself through
SignificantInclusive(p) == p # NaN /\ p[1] <= Alpha

\* line 78
Significant(p) == LessThan(p, Alpha)

\* lines 131, 78, 111-113
PosthocSkipped ==
    /\ pc = "posthoc"
    /\ ~Significant(Get(interaction_p_value))
    /\ Prints(<<"Skipping post-hoc tests for", dv_col>>)
    /\ posthoc_results' = None
    /\ condition_comparisons' = None
    /\ group_comparisons' = None
    /\ interaction_comparisons' = None
    /\ means' = None
    /\ pc' = "save"
    /\ UNCHANGED <<file_data, df, i, mixed_anova, interaction_p_value, Locals, writer, error>>

\* lines 131, 78-110: the pairwise tests return
PosthocRun ==
    /\ pc = "posthoc"
    /\ Significant(Get(interaction_p_value))
    /\ Prints(<<"Running post-hoc tests for", dv_col>>)
    /\ df' = NormalizeLabels(df)
    /\ LET data == PosthocData(df', dv_col)
           grps == Unique(data, "Group")
           conds == Unique(data, "Condition")
       IN  /\ posthoc_data' = Some(data)
           /\ groups' = Some(grps)
           /\ conditions' = Some(conds)
           /\ means' = Some(calculate_means(data))
           /\ \E swap \in BOOLEAN :
                LET rows == PairwiseTable(grps, conds, "0.02", swap)
                IN  /\ posthoc_results' = Some(rows)
                    /\ condition_comparisons' = Some(ConditionComparisons(rows, grps, conds))
                    /\ group_comparisons' = Some(GroupComparisons(rows, grps, conds))
                    /\ interaction_comparisons' = Some(compare_interaction(rows))
    /\ pc' = "save"
    /\ UNCHANGED <<file_data, i, aov_data, mixed_anova, interaction_p_value, writer, error>>

\* lines 131, 78-91: pg.pairwise_tests raises; nothing catches it
PairwiseTestsRaise ==
    /\ pc = "posthoc"
    /\ Significant(Get(interaction_p_value))
    /\ Prints(<<"Running post-hoc tests for", dv_col>>)
    /\ df' = NormalizeLabels(df)
    /\ posthoc_data' = Some(PosthocData(df', dv_col))
    /\ error' = Some(<<"pairwise_tests", dv_col>>)
    /\ pc' = "aborted"
    /\ UNCHANGED <<file_data, i, aov_data, mixed_anova, interaction_p_value, groups,
                   conditions, Returned, writer>>

\* lines 135-143
SavePosthoc ==
    /\ pc = "save"
    /\ posthoc_results # None
    /\ writer' = writer \cup {SheetName(dv_col, suffix) : suffix \in PosthocSuffixes}
    /\ NextColumn
    /\ UNCHANGED <<file_data, df, mixed_anova, interaction_p_value, Locals, Returned,
                   stdout, error>>

\* line 135, posthoc_results is None
NothingToSave ==
    /\ pc = "save"
    /\ posthoc_results = None
    /\ NextColumn
    /\ UNCHANGED <<file_data, df, mixed_anova, interaction_p_value, Locals, Returned,
                   writer, stdout, error>>

\* line 145
Complete ==
    /\ pc = "complete"
    /\ Prints(<<"Mixed ANOVA analysis complete">>)
    /\ pc' = "done"
    /\ UNCHANGED <<file_data, df, i, mixed_anova, interaction_p_value, Locals, Returned,
                   writer, error>>

Next ==
    \/ RunMixedAnova
    \/ MixedAnovaRaises
    \/ WriteAnova
    \/ InteractionFound
    \/ InteractionNotFound
    \/ PosthocSkipped
    \/ PosthocRun
    \/ PairwiseTestsRaise
    \/ SavePosthoc
    \/ NothingToSave
    \/ Complete

Spec == Init /\ [][Next]_vars

-----------------------------------------------------------------------------
(* The aggregators on their own: lines 100-108 applied to any post-hoc table *)

\* free-form labels, as left by strip() and lower(); a label may itself
\* contain " vs "
LabelA == <<"a">>
LabelBvsA == <<"b", " ", "v", "s", " ", "a">>
LabelAvsB == <<"a", " ", "v", "s", " ", "b">>

LevelPool == {LabelA, LabelBvsA, LabelAvsB}

\* what unique() can return: two or more levels, none twice
LevelLists ==
    {l \in UNION {[1..n -> LevelPool] : n \in 2..Cardinality(LevelPool)} :
        \A a, b \in DOMAIN l : a # b => l[a] # l[b]}

PosthocRows ==
    {PosthocRow(contrast, ab[1], ab[2], p, FALSE) :
        contrast \in {"Condition", "Group", "Condition * Group"},
        ab \in {q \in LevelPool \X LevelPool : q[1] # q[2]}, p \in PUncs}

\* a main-effect contrast has one row per pair of levels, in either order
OneRowPerPair(rows) ==
    \A m, n \in DOMAIN rows :
        (/\ m # n
         /\ rows[m].Contrast = rows[n].Contrast
         /\ rows[m].Contrast # "Condition * Group")
        => {rows[m].A, rows[m].B} # {rows[n].A, rows[n].B}

PosthocTables ==
    {rows \in UNION {[1..n -> PosthocRows] : n \in 0..MaxRows} : OneRowPerPair(rows)}

MainIdle ==
    /\ file_data = <<>>
    /\ df = <<>>
    /\ i = 0
    /\ aov_data = None
    /\ mixed_anova = None
    /\ interaction_p_value = None
    /\ writer = {}
    /\ stdout = <<>>
    /\ error = None

MainVars == <<file_data, df, i, aov_data, mixed_anova, interaction_p_value, writer,
              stdout, error>>

InitAggregator ==
    /\ MainIdle
    /\ pc = "condition_comparisons"
    /\ posthoc_data = None
    /\ means = None
    /\ \E rows \in PosthocTables : posthoc_results = Some(rows)
    /\ \E l \in LevelLists : groups = Some(l)
    /\ \E l \in LevelLists : conditions = Some(l)
    /\ condition_comparisons = None
    /\ group_comparisons = None
    /\ interaction_comparisons = None

\* lines 100-103
BuildConditionComparisons ==
    /\ pc = "condition_comparisons"
    /\ condition_comparisons' =
          Some(ConditionComparisons(Get(posthoc_results), Get(groups), Get(conditions)))
    /\ pc' = "group_comparisons"
    /\ UNCHANGED <<MainVars, posthoc_data, means, posthoc_results, groups, conditions,
                   group_comparisons, interaction_comparisons>>

\* lines 105-106
BuildGroupComparisons ==
    /\ pc = "group_comparisons"
    /\ group_comparisons' =
          Some(GroupComparisons(Get(posthoc_results), Get(groups), Get(conditions)))
    /\ pc' = "interaction_comparisons"
    /\ UNCHANGED <<MainVars, posthoc_data, means, posthoc_results, groups, conditions,
                   condition_comparisons, interaction_comparisons>>

\* line 108
FilterInteraction ==
    /\ pc = "interaction_comparisons"
    /\ interaction_comparisons' = Some(compare_interaction(Get(posthoc_results)))
    /\ pc' = "returned"
    /\ UNCHANGED <<MainVars, posthoc_data, means, posthoc_results, groups, conditions,
                   condition_comparisons, group_comparisons>>

NextAggregator ==
    \/ BuildConditionComparisons
    \/ BuildGroupComparisons
    \/ FilterInteraction

SpecAggregator == InitAggregator /\ [][NextAggregator]_vars

-----------------------------------------------------------------------------
(* calculate_means on its own: line 94 applied to any frame line 86 can leave *)

MeansRows ==
    [ID : {0}, Group : {<<"a">>, <<"b">>}, Condition : {<<"x">>, <<"y">>},
     value : {NA, <<1>>, <<2>>}]

\* a four-column frame after dropna(subset=[dv_col])
MeansFrames ==
    {dropna([k \in 1..NumRows |-> [f[k] EXCEPT !.ID = SubjectOf(k)]]) :
        f \in [1..NumRows -> MeansRows]}

InitMeans ==
    /\ MainIdle
    /\ pc = "calculate_means"
    /\ \E frame \in MeansFrames : posthoc_data = Some(frame)
    /\ means = None
    /\ posthoc_results = None
    /\ groups = None
    /\ conditions = None
    /\ condition_comparisons = None
    /\ group_comparisons = None
    /\ interaction_comparisons = None

\* line 94
CallCalculateMeans ==
    /\ pc = "calculate_means"
    /\ means' = Some(calculate_means(Get(posthoc_data)))
    /\ pc' = "returned"
    /\ UNCHANGED <<MainVars, posthoc_data, posthoc_results, groups, conditions,
                   condition_comparisons, group_comparisons, interaction_comparisons>>

NextMeans == CallCalculateMeans

SpecMeans == InitMeans /\ [][NextMeans]_vars

-----------------------------------------------------------------------------
(* What the claims are stated over *)

Printed(message) == \E m \in DOMAIN stdout : stdout[m] = message

Started(dv) == Printed(<<"Running Mixed ANOVA for", dv>>)
PosthocRan(dv) == Printed(<<"Running post-hoc tests for", dv>>)
PosthocSkippedFor(dv) == Printed(<<"Skipping post-hoc tests for", dv>>)
NotFoundFor(dv) == Printed(<<"Interaction effect not found for", dv>>)

\* the column named by the last message of a kind
LastColumn(kind) ==
    LET at == {m \in DOMAIN stdout : stdout[m][1] = kind}
        last == CHOOSE m \in at : \A n \in at : n <= m
    IN  stdout[last][2]

AnovaSheet(dv) == <<dv, "_Mixed_ANOVA">>

FiveSheets(dv) ==
    {<<dv, "_Posthoc_Comparisons">>, <<dv, "_Condition_Comparisons">>,
     <<dv, "_Group_Comparisons">>, <<dv, "_Interaction_Comparisons">>, <<dv, "_Means">>}

\* the post-hoc call of the current column has been decided
GateDecided ==
    /\ i \in DOMAIN rm_columns
    /\ \/ pc = "save"
       \/ pc = "aborted" /\ error = Some(<<"pairwise_tests", rm_columns[i]>>)

\* interaction_p_value still holds the p-value of column k, which is behind the loop
PValueOf(k) ==
    /\ k = i - 1
    /\ pc \in {"run_mixed_anova", "complete"}
    /\ ~NotFoundFor(rm_columns[k])

BelowAlpha(p) == p # NaN /\ p[1] < Alpha
AtOrAboveAlpha(p) == p # NaN /\ p[1] >= Alpha

-----------------------------------------------------------------------------
(* C1: the post-hoc tests of a column run if and only if its interaction   *)
(* p-value is strictly below 0.001; a p-value equal to 0.001, or above it, *)
(* skips them.                                                             *)
C1_GateIsStrict ==
    GateDecided =>
        LET p == Get(interaction_p_value)
            dv == rm_columns[i]
        IN  /\ BelowAlpha(p) => PosthocRan(dv) /\ ~PosthocSkippedFor(dv)
            /\ AtOrAboveAlpha(p) => ~PosthocRan(dv) /\ PosthocSkippedFor(dv)
            /\ PosthocRan(dv) => BelowAlpha(p)
            /\ pc = "save" => (posthoc_results # None <=> BelowAlpha(p))

\* a column at exactly 0.001 is skipped after an earlier column below it ran
C1_Witness ==
    /\ pc = "save"
    /\ i = 2
    /\ interaction_p_value = Some(<<Alpha>>)
    /\ posthoc_results = None
    /\ PosthocRan(rm_columns[1])

-----------------------------------------------------------------------------
(* C2: the ANOVA table of every processed column is written whether or not *)
(* post-hoc runs, and the five post-hoc artifacts come together: all five  *)
(* returned and written when the gate passes, none of them otherwise.      *)
C2_AllOrNothing ==
    /\ posthoc_results = None <=> condition_comparisons = None
    /\ posthoc_results = None <=> group_comparisons = None
    /\ posthoc_results = None <=> interaction_comparisons = None
    /\ posthoc_results = None <=> means = None
    /\ \A k \in DOMAIN rm_columns :
         LET dv == rm_columns[k]
             written == FiveSheets(dv) \cap writer
             posthoc_sheets == {sheet \in writer : sheet[1] = dv} \ {AnovaSheet(dv)}
         IN  /\ written = {} \/ written = FiveSheets(dv)
             /\ posthoc_sheets = written
             /\ k < i => /\ AnovaSheet(dv) \in writer
                         /\ written = FiveSheets(dv) <=> PosthocRan(dv)
             /\ PValueOf(k) =>
                         /\ written = FiveSheets(dv) <=> BelowAlpha(Get(interaction_p_value))
                         /\ written = FiveSheets(dv) <=> posthoc_results # None
             /\ (k = i /\ pc \in {"check_interaction", "posthoc", "save"}) =>
                         AnovaSheet(dv) \in writer
             /\ k >= i => written = {}

\* two finished columns: one with its five tables, one with its ANOVA table only
C2_Witness ==
    \E j, k \in DOMAIN rm_columns :
        /\ j < i /\ k < i
        /\ FiveSheets(rm_columns[j]) \subseteq writer
        /\ PosthocSkippedFor(rm_columns[k])
        /\ FiveSheets(rm_columns[k]) \cap writer = {}
        /\ AnovaSheet(rm_columns[k]) \in writer

-----------------------------------------------------------------------------
(* C3: an ANOVA table without an 'Interaction' row is no error: its table  *)
(* is written, no post-hoc table is written for it, and the loop goes on   *)
(* to the next column.                                                     *)
NoInteractionRow(aov) == \A r \in DOMAIN aov : aov[r].Source # "Interaction"

C3_MissingInteractionIsHandled ==
    /\ \A k \in DOMAIN rm_columns :
         LET dv == rm_columns[k] IN
         /\ (k = i - 1 /\ pc \in {"run_mixed_anova", "complete"}) =>
                (NotFoundFor(dv) <=> NoInteractionRow(Get(mixed_anova)))
         /\ NotFoundFor(dv) =>
                /\ AnovaSheet(dv) \in writer
                /\ FiveSheets(dv) \cap writer = {}
                /\ ~PosthocRan(dv)
                /\ error # Some(<<"run_mixed_anova", dv>>)
                /\ error # Some(<<"pairwise_tests", dv>>)
                /\ i > k
                /\ k < Len(rm_columns) =>
                       \/ i = k + 1 /\ pc = "run_mixed_anova"
                       \/ Started(rm_columns[k + 1])
                /\ k = Len(rm_columns) => pc \in {"complete", "done"}
    /\ pc = "done" =>
         \A k \in DOMAIN rm_columns :
             Started(rm_columns[k]) /\ AnovaSheet(rm_columns[k]) \in writer

\* a column without the row is behind the loop and the next one has been taken up
C3_Witness ==
    /\ NotFoundFor(rm_columns[1])
    /\ Started(rm_columns[2])
    /\ AnovaSheet(rm_columns[1]) \in writer

-----------------------------------------------------------------------------
(* C4: a statistics routine that fails for one column leaves the other     *)
(* columns processed and their tables written.  The program has no handler *)
(* for the exception, so this is what the source does not do.              *)
C4_FailureIsConfined ==
    pc \in {"done", "aborted"} =>
        \A k \in DOMAIN rm_columns :
            LET dv == rm_columns[k] IN
            /\ Started(dv)
            /\ error # Some(<<"run_mixed_anova", dv>>) => AnovaSheet(dv) \in writer

-----------------------------------------------------------------------------
(* C5: label normalization never changes the caller's dataset: the group   *)
(* and condition labels of the loaded DataFrame stay as they were loaded.  *)
C5_DatasetLabelsUnchanged ==
    /\ DOMAIN df = DOMAIN file_data
    /\ \A k \in DOMAIN df :
         /\ df[k].Group = file_data[k].Group
         /\ df[k].Condition = file_data[k].Condition

-----------------------------------------------------------------------------
(* C9: listwise deletion is per computation: the rows the ANOVA fit, the   *)
(* pairwise tests and the means get are exactly the observations whose     *)
(* value for that column is present, and no row or value leaves the        *)
(* dataset the other columns are run on.                                   *)
PresentRows(dv) == {k \in DOMAIN file_data : file_data[k].vals[dv] # NA}

ExactlyThePresentRows(frame, dv) ==
    /\ DOMAIN frame = PresentRows(dv)
    /\ \A k \in DOMAIN frame :
         /\ frame[k].ID = file_data[k].ID
         /\ frame[k].value = file_data[k].vals[dv]

MeanCount(cell) == IF cell = NaN THEN 0 ELSE cell[2]
MeanSum(cell) == IF cell = NaN THEN 0 ELSE cell[1]

-----------------------------------------------------------------------------
(* C8: the means table has an entry for a (group, condition) cell only     *)
(* when the cell has an observation with a value; a cell without one is    *)
(* absent, not present with NaN.                                           *)
C8_EmptyCellsAreAbsent ==
    means # None =>
        \A cell \in DOMAIN Get(means) :
            /\ Get(means)[cell] # NaN
            /\ \E k \in DOMAIN Get(posthoc_data) :
                 /\ Get(posthoc_data)[k].Group = cell[1]
                 /\ Get(posthoc_data)[k].Condition = cell[2]
                 /\ Get(posthoc_data)[k].value # NA

-----------------------------------------------------------------------------
(* The matrices of the aggregators *)

RowFor(r, contrast, x, y) == r.Contrast = contrast /\ {r.A, r.B} = {x, y}

\* every matrix stored for a fixed level satisfies P
EveryMatrix(P(_, _, _, _)) ==
    /\ condition_comparisons # None =>
         \A g \in DOMAIN Get(condition_comparisons) :
             P(Get(condition_comparisons)[g], Get(posthoc_results), "Condition",
               Get(conditions))
    /\ group_comparisons # None =>
         \A c \in DOMAIN Get(group_comparisons) :
             P(Get(group_comparisons)[c], Get(posthoc_results), "Group", Get(groups))

Symmetric(matrix, rows, contrast, levels) ==
    \A x, y \in Range(levels) :
        x # y =>
            /\ VsKey(x, y) \in DOMAIN matrix
            /\ VsKey(y, x) \in DOMAIN matrix
            /\ matrix[VsKey(x, y)] = matrix[VsKey(y, x)]
            /\ \A n \in DOMAIN rows :
                 RowFor(rows[n], contrast, x, y) =>
                     /\ matrix[VsKey(x, y)] = rows[n].p_unc
                     /\ matrix[VsKey(y, x)] = rows[n].p_unc

MissIsNs(matrix, rows, contrast, levels) ==
    \A x, y \in Range(levels) :
        (x # y /\ \A n \in DOMAIN rows : ~RowFor(rows[n], contrast, x, y)) =>
            /\ VsKey(x, y) \in DOMAIN matrix
            /\ matrix[VsKey(x, y)] = "ns"

(* C6: for two distinct levels x and y the entries 'x vs y' and 'y vs x'   *)
(* are both present and equal, and a row of the matching contrast with     *)
(* (A, B) = (x, y) in either order makes both its uncorrected p-value.     *)
C6_SymmetricLookup == EveryMatrix(Symmetric)

(* C7: a pair of distinct levels with no row of the matching contrast in   *)
(* either order holds exactly 'ns' in the matrix.                          *)
C7_MissIsNs == EveryMatrix(MissIsNs)

=============================================================================
